---- MODULE Spec2Model ----
(***************************************************************************)
(* doodle: the GPU handle wrappers of gl.h / gl.cpp (gl::Shader,           *)
(* gl::Program, gl::Buffer, gl::VAO), shader compilation and program       *)
(* linking, buffer upload, load_shader, the vertex array setup of          *)
(* load_mesh, draw_mesh and the run of main.                               *)
(*                                                                         *)
(* The OpenGL driver is outside the repository.  It is modelled as the     *)
(* recording driver the specification asks for: it issues fresh non-zero   *)
(* names, counts how often each name is handed to a release call, ignores  *)
(* a release of the name 0, and every call made to it is logged.           *)
(***************************************************************************)
EXTENDS Integers, Sequences, FiniteSets, TLC

\* ------------------------------------------------------------------ bounds
MaxWrappers == 3
MaxIds == 2
MaxLogLen == 1
MaxBuffers == 2
MaxFrames == 2

\* ------------------------------------------------------- program constants
GL_TRUE == 1

\* The values GL_COMPILE_STATUS / GL_LINK_STATUS take: GL_FALSE and GL_TRUE.
Statuses == {0, GL_TRUE}

Wrappers == 1..MaxWrappers
Ids == 1..MaxIds
Kinds == {"Shader", "Program", "Buffer", "VAO"}

LogChars == {"a", "b"}
SeqsUpTo(S, n) == UNION {[1..m -> S] : m \in 0..n}
Logs == SeqsUpTo(LogChars, MaxLogLen)

Min(a, b) == IF a < b THEN a ELSE b

VARIABLES
  life,       \* wrapper -> "unborn" | "live" | "dead": the object's lifetime
  kind,       \* wrapper -> the wrapper class the object is declared with
  handle,     \* wrapper -> the GLuint handle member of a live object
  movedFrom,  \* history: the wrapper's identifier was transferred out by a move
  issued,     \* driver: kind -> number of names issued so far (names 1..issued)
  released,   \* driver: kind -> name -> times it was handed to the release call
  calls,      \* the driver calls made by the most recent operation, in order
  last,       \* the most recent operation and what its operands held before it
  report,     \* driver: the status and info log of the last compile / link
  thrown,     \* the exception raised by the most recent operation / in flight
  pc,         \* load_shader: the statement to execute next
  files,      \* path -> whether the file exists
  trace,      \* load_shader: every driver call made so far, in order
  result,     \* load_shader: the Shader returned to the caller, if any
  input,      \* the value handed in: a Mesh for the setup, a range for upload
  mesh,       \* mesh: the Mesh that was built
  vaoState,   \* driver: the configuration of the mesh's vertex array object
  frame,      \* mesh: number of draw_mesh invocations so far
  store,      \* driver: buffer name -> the bytes of the buffer's data store
  context     \* the rendering context: "none" | "current" | "destroyed"

hvars == <<life, kind, handle, movedFrom, issued, released>>
lvars == <<pc, files, trace, result>>
mvars == <<input, mesh, vaoState, frame, store, context>>
vars == <<life, kind, handle, movedFrom, issued, released, calls, last, report,
          thrown, pc, files, trace, result, input, mesh, vaoState, frame,
          store, context>>

NoLast == [op |-> "none", w |-> 0, src |-> 0, old |-> 0, srcOld |-> 0,
           wasMoved |-> FALSE, prev |-> <<>>]
NoReport == [status |-> GL_TRUE, log |-> <<>>]
NoThrow == [type |-> "none", what |-> <<>>]

\* -------------------------------------------------------------- the driver
CreateFn(k) ==
  CASE k = "Shader" -> "glCreateShader"
    [] k = "Program" -> "glCreateProgram"
    [] k = "Buffer" -> "glCreateBuffers"
    [] k = "VAO" -> "glCreateVertexArrays"

DeleteFn(k) ==
  CASE k = "Shader" -> "glDeleteShader"
    [] k = "Program" -> "glDeleteProgram"
    [] k = "Buffer" -> "glDeleteBuffers"
    [] k = "VAO" -> "glDeleteVertexArrays"

DeleteFns == {DeleteFn(k) : k \in Kinds}

Call(fn, arg) == [fn |-> fn, arg |-> arg]

\* The name a creation call returns: the next unused name, or 0 when the
\* driver fails to create the object.
glCreate(k, ok) == IF ok THEN issued[k] + 1 ELSE 0

\* The driver's release counters after a release call with name h: the name 0
\* is silently ignored.
glDelete(rel, k, h) ==
  IF h = 0 THEN rel ELSE [rel EXCEPT ![k][h] = @ + 1]

\* GL_INFO_LOG_LENGTH: the length of the log including its null terminator, 0
\* when there is no log.
InfoLogLength(log) == IF Len(log) = 0 THEN 0 ELSE Len(log) + 1

\* glGet*InfoLog(handle, bufSize, &length, buf): the characters the driver
\* writes into a buffer of bufSize characters (one is kept for the null
\* terminator); length is the number of characters written.
GetInfoLog(log, bufSize) ==
  IF bufSize = 0 THEN <<>> ELSE SubSeq(log, 1, Min(Len(log), bufSize - 1))

\* ------------------------------------------------------------ buffer data
\* A contiguous range of typed records: its elements and their type.
Span(elems, type) == [elems |-> elems, type |-> type]

\* sizeof(std::ranges::range_value_t<decltype(data)>) for the element types
\* the program uploads.
SizeOf(type) ==
  CASE type = "uint8_t" -> 1
    [] type = "float" -> 4
    [] type = "glm::mat4" -> 64

\* std::ranges::cdata(data): the bytes of the range in memory, byte b of an
\* element written as the pair of the element and b.
Memory(data) ==
  [b \in 1..(Len(data.elems) * SizeOf(data.type)) |->
     [elem |-> data.elems[((b - 1) \div SizeOf(data.type)) + 1],
      byte |-> (b - 1) % SizeOf(data.type)]]

RangeSize_CountOnly(data) == Len(data.elems)

\* The size in bytes the range overload of upload_data computes.
RangeSize(data) == Len(data.elems) * SizeOf(data.type)

\* glNamedBufferData(buffer, size, ptr, usage): the buffer's data store is
\* replaced by a new one of size bytes copied from ptr.  A name that is not a
\* buffer object (0 in particular) is an error and nothing is stored.
glNamedBufferData(st, buffer, size, ptr) ==
  IF buffer \in DOMAIN st
    THEN [st EXCEPT ![buffer] = SubSeq(ptr, 1, size)]
    ELSE st

\* The driver's stores without any data: a buffer object starts with none.
EmptyStore(names) == [b \in names |-> <<>>]

\* ------------------------------------------------------------ the wrappers
\* gl::X::X(): the constructor acquires one name from the driver.  The names
\* are capped by the size of the driver's table of names.
Ctor(w, ok) ==
  /\ life[w] = "unborn"
  /\ ok => issued[kind[w]] + 1 \in DOMAIN released[kind[w]]
  /\ life' = [life EXCEPT ![w] = "live"]
  /\ handle' = [handle EXCEPT ![w] = glCreate(kind[w], ok)]
  /\ movedFrom' = [movedFrom EXCEPT ![w] = FALSE]
  /\ issued' = [issued EXCEPT ![kind[w]] = IF ok THEN @ + 1 ELSE @]
  /\ UNCHANGED <<kind, released>>
  /\ calls' = <<Call(CreateFn(kind[w]), glCreate(kind[w], ok))>>
  /\ last' = [NoLast EXCEPT !.op = "ctor", !.w = w, !.src = w]

MoveCtor_KeepSource(w, src) ==
  /\ life[w] = "unborn"
  /\ life[src] = "live"
  /\ kind[w] = kind[src]
  /\ life' = [life EXCEPT ![w] = "live"]
  /\ handle' = [handle EXCEPT ![w] = handle[src]]
  /\ movedFrom' = [movedFrom EXCEPT ![w] = FALSE, ![src] = TRUE]
  /\ UNCHANGED <<kind, issued, released>>
  /\ calls' = <<>>
  /\ last' = [NoLast EXCEPT !.op = "movector", !.w = w, !.src = src,
                            !.srcOld = handle[src]]

\* gl::X::X(X &&other): handle(other.handle), other.handle = 0.
MoveCtor(w, src) ==
  /\ life[w] = "unborn"
  /\ life[src] = "live"
  /\ kind[w] = kind[src]
  /\ life' = [life EXCEPT ![w] = "live"]
  /\ handle' = [handle EXCEPT ![w] = handle[src], ![src] = 0]
  /\ movedFrom' = [movedFrom EXCEPT ![w] = FALSE, ![src] = TRUE]
  /\ UNCHANGED <<kind, issued, released>>
  /\ calls' = <<>>
  /\ last' = [NoLast EXCEPT !.op = "movector", !.w = w, !.src = src,
                            !.srcOld = handle[src]]

Dtor_SkipRelease(w) ==
  /\ life[w] = "live"
  /\ life' = [life EXCEPT ![w] = "dead"]
  /\ handle' = [handle EXCEPT ![w] = 0]
  /\ movedFrom' = [movedFrom EXCEPT ![w] = FALSE]
  /\ UNCHANGED <<kind, issued, released>>
  /\ calls' = <<>>
  /\ last' = [NoLast EXCEPT !.op = "dtor", !.w = w, !.src = w,
                            !.old = handle[w], !.wasMoved = movedFrom[w]]

\* gl::X::~X(): the release call is made with whatever the handle holds.  The
\* object is gone afterwards; its members are cleared in the model.
Dtor(w) ==
  /\ life[w] = "live"
  /\ life' = [life EXCEPT ![w] = "dead"]
  /\ handle' = [handle EXCEPT ![w] = 0]
  /\ movedFrom' = [movedFrom EXCEPT ![w] = FALSE]
  /\ UNCHANGED <<kind, issued>>
  /\ released' = glDelete(released, kind[w], handle[w])
  /\ calls' = <<Call(DeleteFn(kind[w]), handle[w])>>
  /\ last' = [NoLast EXCEPT !.op = "dtor", !.w = w, !.src = w,
                            !.old = handle[w], !.wasMoved = movedFrom[w]]

MoveAssign_KeepSource(w, src) ==
  /\ life[w] = "live"
  /\ life[src] = "live"
  /\ kind[w] = kind[src]
  /\ handle' = [handle EXCEPT ![w] = handle[src]]
  /\ movedFrom' = [[movedFrom EXCEPT ![w] = FALSE] EXCEPT ![src] = TRUE]
  /\ UNCHANGED <<life, kind, issued>>
  /\ released' = glDelete(released, kind[w], handle[w])
  /\ calls' = <<Call(DeleteFn(kind[w]), handle[w])>>
  /\ last' = [NoLast EXCEPT !.op = "moveassign", !.w = w, !.src = src,
                            !.old = handle[w], !.srcOld = handle[src]]

MoveAssign_NoRelease(w, src) ==
  /\ life[w] = "live"
  /\ life[src] = "live"
  /\ kind[w] = kind[src]
  /\ handle' = [[handle EXCEPT ![w] = handle[src]] EXCEPT ![src] = 0]
  /\ movedFrom' = [[movedFrom EXCEPT ![w] = FALSE] EXCEPT ![src] = TRUE]
  /\ UNCHANGED <<life, kind, issued, released>>
  /\ calls' = <<>>
  /\ last' = [NoLast EXCEPT !.op = "moveassign", !.w = w, !.src = src,
                            !.old = handle[w], !.srcOld = handle[src]]

\* gl::X::operator=(X &&other): the release call on this object's handle, then
\* handle = other.handle, then other.handle = 0.  other may be *this.
MoveAssign(w, src) ==
  /\ life[w] = "live"
  /\ life[src] = "live"
  /\ kind[w] = kind[src]
  /\ handle' = [[handle EXCEPT ![w] = handle[src]] EXCEPT ![src] = 0]
  /\ movedFrom' = [[movedFrom EXCEPT ![w] = FALSE] EXCEPT ![src] = TRUE]
  /\ UNCHANGED <<life, kind, issued>>
  /\ released' = glDelete(released, kind[w], handle[w])
  /\ calls' = <<Call(DeleteFn(kind[w]), handle[w])>>
  /\ last' = [NoLast EXCEPT !.op = "moveassign", !.w = w, !.src = src,
                            !.old = handle[w], !.srcOld = handle[src]]

\* gl::Buffer::upload_data(ptr, size, usage): one glNamedBufferData call on
\* the handle.
UploadDataPtr(w, ptr, size) ==
  /\ life[w] = "live"
  /\ kind[w] = "Buffer"
  /\ UNCHANGED hvars
  /\ store' = glNamedBufferData(store, handle[w], size, ptr)
  /\ calls' = <<Call("glNamedBufferData", handle[w])>>
  /\ last' = [NoLast EXCEPT !.op = "upload_data", !.w = w, !.src = w,
                            !.old = handle[w],
                            !.prev = IF handle[w] \in DOMAIN store
                                       THEN store[handle[w]] ELSE <<>>]

\* gl::Buffer::upload_data(data, usage), the range overload: the size in
\* bytes and the pointer to the first element go to the overload above.
UploadData(w, data) == UploadDataPtr(w, Memory(data), RangeSize(data))

\* gl::Shader::add_source(source): one glShaderSource call on the handle.
AddSource(w) ==
  /\ life[w] = "live"
  /\ kind[w] = "Shader"
  /\ UNCHANGED hvars
  /\ calls' = <<Call("glShaderSource", handle[w])>>
  /\ last' = [NoLast EXCEPT !.op = "add_source", !.w = w, !.src = w,
                            !.old = handle[w]]

\* gl::Program::attach_shader(shader): one glAttachShader call; the shader
\* wrapper is read through its conversion to GLuint and keeps its handle.
AttachShader(w, sh) ==
  /\ life[w] = "live"
  /\ kind[w] = "Program"
  /\ life[sh] = "live"
  /\ UNCHANGED hvars
  /\ calls' = <<Call("glAttachShader", <<handle[w], handle[sh]>>)>>
  /\ last' = [NoLast EXCEPT !.op = "attach_shader", !.w = w, !.src = sh,
                            !.old = handle[w], !.srcOld = handle[sh]]

\* ------------------------------------------------- compile and link
CompilePrefix == <<"Failed to compile shader: ">>
LinkPrefix == <<"Failed to link program: ">>

\* gl::CompilationError(log): std::format("Failed to compile shader: {}", log).
CompilationError(log) ==
  [type |-> "CompilationError", what |-> CompilePrefix \o log]

\* gl::LinkError(log): std::format("Failed to link program: {}", log).
LinkError(log) == [type |-> "LinkError", what |-> LinkPrefix \o log]

RetrieveLog_ShortBuffer(log) ==
  GetInfoLog(log, InfoLogLength(log) - 1)

\* The log string the failure branch of compile() / link() builds: sized to
\* GL_INFO_LOG_LENGTH, filled by the driver, cut to the length it wrote.
RetrieveLog(log) ==
  LET log_length == InfoLogLength(log)
      written == GetInfoLog(log, log_length)
      actual_length == Len(written)
      buffer == written \o [i \in 1..(log_length - actual_length) |-> "\\0"]
  IN  SubSeq(buffer, 1, actual_length)

StatusCheckCalls(query, getiv, getlog, h, status) ==
  <<Call(query, h), Call(getiv \o ":STATUS", h)>>
    \o (IF status # GL_TRUE
          THEN <<Call(getiv \o ":GL_INFO_LOG_LENGTH", h), Call(getlog, h)>>
          ELSE <<>>)

\* gl::Shader::compile() on a wrapper that holds a shader object; status and
\* log are what the driver reports for it.
Compile(w, status, log) ==
  /\ life[w] = "live"
  /\ kind[w] = "Shader"
  /\ handle[w] # 0
  /\ UNCHANGED hvars
  /\ report' = [status |-> status, log |-> log]
  /\ calls' = StatusCheckCalls("glCompileShader", "glGetShaderiv",
                             "glGetShaderInfoLog", handle[w], status)
  /\ thrown' = IF status # GL_TRUE
                 THEN CompilationError(RetrieveLog(log))
                 ELSE NoThrow
  /\ last' = [NoLast EXCEPT !.op = "compile", !.w = w, !.src = w,
                            !.old = handle[w]]

Link_Swallow(w, status, log) ==
  /\ life[w] = "live"
  /\ kind[w] = "Program"
  /\ handle[w] # 0
  /\ UNCHANGED hvars
  /\ report' = [status |-> status, log |-> log]
  /\ calls' = StatusCheckCalls("glLinkProgram", "glGetProgramiv",
                               "glGetProgramInfoLog", handle[w], status)
  /\ thrown' = NoThrow
  /\ last' = [NoLast EXCEPT !.op = "link", !.w = w, !.src = w,
                            !.old = handle[w]]

\* gl::Program::link() on a wrapper that holds a program object.
Link(w, status, log) ==
  /\ life[w] = "live"
  /\ kind[w] = "Program"
  /\ handle[w] # 0
  /\ UNCHANGED hvars
  /\ report' = [status |-> status, log |-> log]
  /\ calls' = StatusCheckCalls("glLinkProgram", "glGetProgramiv",
                             "glGetProgramInfoLog", handle[w], status)
  /\ thrown' = IF status # GL_TRUE
                 THEN LinkError(RetrieveLog(log))
                 ELSE NoThrow
  /\ last' = [NoLast EXCEPT !.op = "link", !.w = w, !.src = w,
                            !.old = handle[w]]

\* -------------------------------------------------------------- load_shader
ShaderName == "main"
FragPath == ShaderName \o ".frag"
VertPath == ShaderName \o ".vert"

NoResult == [returned |-> FALSE, attribs |-> <<>>]

\* The std::runtime_error read_file raises for a path that does not exist.
FileNotFound(path) ==
  [type |-> "runtime_error", what |-> <<"File ", path, " does not exist.">>]

read_file_NoCheck(path) == NoThrow

\* read_file(path): raises when the path does not exist, otherwise returns
\* the file's text (NoThrow stands for the normal return).
read_file(path) == IF files[path] THEN NoThrow ELSE FileNotFound(path)

\* The wrappers of load_shader: its three locals in the order they are
\* constructed, and the program member of the Shader it returns.
Locals == <<"frag_shader", "vert_shader", "program">>
LoadObjs == {"frag_shader", "vert_shader", "program", "shader.program"}
LoadKind ==
  [o \in LoadObjs |-> IF o \in {"frag_shader", "vert_shader"}
                        THEN "Shader" ELSE "Program"]

\* One statement of load_shader that makes the driver calls in calls'.
Goto(from, to) ==
  /\ pc = from
  /\ pc' = to
  /\ trace' = trace \o calls'
  /\ UNCHANGED <<files, mvars>>

\* gl::Shader frag_shader{GL_FRAGMENT_SHADER} / vert_shader{GL_VERTEX_SHADER}.
ConstructStage(w, from, to) ==
  /\ Ctor(w, TRUE)
  /\ Goto(from, to)
  /\ UNCHANGED <<report, thrown, result>>

\* auto source{read_file(path)}: an absent file raises out of load_shader.
ReadStage(path, from, to) ==
  /\ UNCHANGED hvars
  /\ calls' = <<>>
  /\ last' = [NoLast EXCEPT !.op = "read_file"]
  /\ thrown' = read_file(path)
  /\ Goto(from, IF read_file(path) = NoThrow THEN to ELSE "unwind")
  /\ UNCHANGED <<report, result>>

\* shader.add_source(source).
SourceStage(w, from, to) ==
  /\ AddSource(w)
  /\ Goto(from, to)
  /\ UNCHANGED <<report, thrown, result>>

\* shader.compile(): a CompilationError raises out of load_shader.
CompileStage(w, from, to) ==
  \E status \in Statuses, log \in Logs :
    /\ Compile(w, status, log)
    /\ Goto(from, IF status = GL_TRUE THEN to ELSE "unwind")
    /\ UNCHANGED result

\* gl::Program program.
ConstructProgram ==
  /\ Ctor("program", TRUE)
  /\ Goto("prog_ctor", "attach_frag")
  /\ UNCHANGED <<report, thrown, result>>

\* program.attach_shader(frag_shader) / program.attach_shader(vert_shader).
AttachStage(sh, from, to) ==
  /\ AttachShader("program", sh)
  /\ Goto(from, to)
  /\ UNCHANGED <<report, thrown, result>>

\* program.link(): a LinkError raises out of load_shader.
LinkStage ==
  \E status \in Statuses, log \in Logs :
    /\ Link("program", status, log)
    /\ Goto("link", IF status = GL_TRUE THEN "return" ELSE "unwind")
    /\ UNCHANGED result

ReturnShader_CopyProgram ==
  /\ MoveCtor_KeepSource("shader.program", "program")
  /\ Goto("return", "unwind")
  /\ result' = [returned |-> TRUE,
                attribs |-> <<[location |-> 0, type |-> "f32", size |-> 3]>>]
  /\ UNCHANGED <<report, thrown>>

\* return Shader(std::move(program), {VertexAttribProps{position, f32, 3}}).
ReturnShader ==
  /\ MoveCtor("shader.program", "program")
  /\ Goto("return", "unwind")
  /\ result' = [returned |-> TRUE,
                attribs |-> <<[location |-> 0, type |-> "f32", size |-> 3]>>]
  /\ UNCHANGED <<report, thrown>>

\* Leaving load_shader, by return or by exception: the locals that were
\* constructed are destroyed in the reverse order of their construction.
Unwind ==
  \E i \in DOMAIN Locals :
    /\ life[Locals[i]] = "live"
    /\ \A j \in DOMAIN Locals : j > i => life[Locals[j]] # "live"
    /\ Dtor(Locals[i])
    /\ Goto("unwind",
            IF i > 1 THEN "unwind"
            ELSE IF thrown = NoThrow THEN "returned" ELSE "failed")
    /\ UNCHANGED <<report, thrown, result>>

load_shader ==
  \/ ConstructStage("frag_shader", "frag_ctor", "frag_read")
  \/ ReadStage(FragPath, "frag_read", "frag_source")
  \/ SourceStage("frag_shader", "frag_source", "frag_compile")
  \/ CompileStage("frag_shader", "frag_compile", "vert_ctor")
  \/ ConstructStage("vert_shader", "vert_ctor", "vert_read")
  \/ ReadStage(VertPath, "vert_read", "vert_source")
  \/ SourceStage("vert_shader", "vert_source", "vert_compile")
  \/ CompileStage("vert_shader", "vert_compile", "prog_ctor")
  \/ ConstructProgram
  \/ AttachStage("frag_shader", "attach_frag", "attach_vert")
  \/ AttachStage("vert_shader", "attach_vert", "link")
  \/ LinkStage
  \/ ReturnShader
  \/ Unwind


\* ------------------------------------------------------- mesh and drawing
\* The casts of load_mesh and draw_mesh (size_t to GLint, GLuint, GLsizei and
\* unsigned int) keep every value below 2^31; the values of this model are all
\* far below that, so an argument is written as the value it is cast from.

\* static_cast<GLenum>(AttribType), (IndexType), (Primitive).
AttribTypeGL(t) ==
  CASE t = "f32" -> "GL_FLOAT"
    [] t = "f64" -> "GL_DOUBLE"

IndexTypeGL(t) ==
  CASE t = "u8" -> "GL_UNSIGNED_BYTE"
    [] t = "u16" -> "GL_UNSIGNED_SHORT"
    [] t = "u32" -> "GL_UNSIGNED_INT"

PrimitiveGL(p) ==
  CASE p = "triangles" -> "GL_TRIANGLES"

VertexAttrib(location, type, size, offset, normalized) ==
  [props |-> [location |-> location, type |-> type, size |-> size],
   offset |-> offset, normalized |-> normalized]

VertexFormat(attribs, stride) == [attribs |-> attribs, stride |-> stride]

\* The one format load_mesh builds: a vec3 position at offset 0, stride
\* sizeof(float) * 3.
PositionFormat ==
  VertexFormat(<<VertexAttrib(0, "f32", 3, 0, FALSE)>>, 12)

Locations == {0, 1}
Slots == 0..(MaxBuffers - 1)

\* The vertex formats handed to the vertex array setup: load_mesh's own, two
\* attributes at offsets 0 and 12 with stride 24, a normalized double at slot
\* 1, a second layout of slot 0, two attributes declared at the same slot, and
\* a format without attributes.
FormatChoices ==
  { PositionFormat,
    VertexFormat(<<VertexAttrib(0, "f32", 3, 0, FALSE),
                   VertexAttrib(1, "f32", 3, 12, FALSE)>>, 24),
    VertexFormat(<<VertexAttrib(1, "f64", 2, 0, TRUE)>>, 16),
    VertexFormat(<<VertexAttrib(0, "f32", 2, 4, TRUE)>>, 16),
    VertexFormat(<<VertexAttrib(1, "f32", 2, 0, FALSE),
                   VertexAttrib(1, "f64", 1, 8, TRUE)>>, 16),
    VertexFormat(<<>>, 4) }

\* A VertexBuffer: the buffer's name, the offset and the format.
VertexBuffer(buffer, offset, format) ==
  [buffer |-> buffer, offset |-> offset, format |-> format]

\* std::optional<IndexBuffer>: present is the optional's engaged flag.
IndexBuffer(buffer, type) ==
  [present |-> TRUE, buffer |-> buffer, offset |-> 0, type |-> type]
NoIndexBuffer ==
  [present |-> FALSE, buffer |-> 0, offset |-> 0, type |-> "u16"]

\* The sequences of vertex buffers handed in: the buffer at position i has the
\* name i.
VertexBufferSeqs ==
  UNION { { [i \in 1..n |-> VertexBuffer(i, off[i], fmt[i])] :
              off \in [1..n -> {0, 8}], fmt \in [1..n -> FormatChoices] } :
          n \in 0..MaxBuffers }

IndexBufferChoices(name) ==
  {NoIndexBuffer} \cup {IndexBuffer(name, t) : t \in {"u8", "u16", "u32"}}

NoMesh ==
  [program |-> 0, vao |-> 0, vertex_buffers |-> <<>>, vertex_count |-> 0,
   primitive |-> "triangles", index_buffer |-> NoIndexBuffer,
   index_count |-> 0]
NoInput == NoMesh

\* The buffer names of the mesh specification: one per vertex buffer and one
\* for the index buffer.
NoStore == EmptyStore(1..(MaxBuffers + 1))

\* The Mesh values handed to the setup and to draw_mesh.
MeshInputs ==
  { [program |-> p, vao |-> 1, vertex_buffers |-> vbs, vertex_count |-> vc,
     primitive |-> "triangles", index_buffer |-> ib, index_count |-> ic] :
    p \in {1, 2}, vbs \in VertexBufferSeqs, vc \in {3, 9}, ic \in {0, 3},
    ib \in IndexBufferChoices(MaxBuffers + 1) }

\* The driver's vertex array object before it is configured.
EmptyVAO ==
  [bindings |-> [b \in Slots |-> [buffer |-> 0, offset |-> 0, stride |-> 0]],
   attribs |-> [l \in Locations |->
                  [enabled |-> FALSE, binding |-> l, size |-> 0,
                   type |-> "none", normalized |-> FALSE, offset |-> 0]],
   element |-> 0]

\* The driver's vertex array state after one configuration call.
ApplyVAOCall(v, c) ==
  CASE c.fn = "glVertexArrayVertexBuffer" ->
         [v EXCEPT !.bindings[c.arg.binding] =
            [buffer |-> c.arg.buffer, offset |-> c.arg.offset,
             stride |-> c.arg.stride]]
    [] c.fn = "glEnableVertexArrayAttrib" ->
         [v EXCEPT !.attribs[c.arg.attrib].enabled = TRUE]
    [] c.fn = "glVertexArrayAttribBinding" ->
         [v EXCEPT !.attribs[c.arg.attrib].binding = c.arg.binding]
    [] c.fn = "glVertexArrayAttribFormat" ->
         [v EXCEPT !.attribs[c.arg.attrib].size = c.arg.size,
                   !.attribs[c.arg.attrib].type = c.arg.type,
                   !.attribs[c.arg.attrib].normalized = c.arg.normalized,
                   !.attribs[c.arg.attrib].offset = c.arg.offset]
    [] c.fn = "glVertexArrayElementBuffer" ->
         [v EXCEPT !.element = c.arg.buffer]
    [] OTHER -> v

RECURSIVE ApplyVAOCalls(_, _)
ApplyVAOCalls(v, cs) ==
  IF cs = <<>> THEN v
  ELSE ApplyVAOCalls(ApplyVAOCall(v, Head(cs)), Tail(cs))

AttribCalls_BindToOwnIndex(vao, buffer_idx, attrib) ==
  <<Call("glEnableVertexArrayAttrib",
         [vao |-> vao, attrib |-> attrib.props.location]),
    Call("glVertexArrayAttribBinding",
         [vao |-> vao, attrib |-> attrib.props.location,
          binding |-> attrib.props.location]),
    Call("glVertexArrayAttribFormat",
         [vao |-> vao, attrib |-> attrib.props.location,
          size |-> attrib.props.size, type |-> AttribTypeGL(attrib.props.type),
          normalized |-> attrib.normalized, offset |-> attrib.offset])>>

\* The body of the attribute loop: enable the attribute, assign its binding
\* index, declare its format.
AttribCalls(vao, buffer_idx, attrib) ==
  <<Call("glEnableVertexArrayAttrib",
         [vao |-> vao, attrib |-> attrib.props.location]),
    Call("glVertexArrayAttribBinding",
         [vao |-> vao, attrib |-> attrib.props.location,
          binding |-> buffer_idx]),
    Call("glVertexArrayAttribFormat",
         [vao |-> vao, attrib |-> attrib.props.location,
          size |-> attrib.props.size, type |-> AttribTypeGL(attrib.props.type),
          normalized |-> attrib.normalized, offset |-> attrib.offset])>>

\* for (const auto &attrib : vertex_buffer.format.attribs), from attribute j.
RECURSIVE AttribLoop(_, _, _, _)
AttribLoop(vao, buffer_idx, attribs, j) ==
  IF j > Len(attribs) THEN <<>>
  ELSE AttribCalls(vao, buffer_idx, attribs[j])
         \o AttribLoop(vao, buffer_idx, attribs, j + 1)

RECURSIVE BufferLoop_LaterFirst(_, _, _)
BufferLoop_LaterFirst(vao, vertex_buffers, buffer_idx) ==
  IF ~(buffer_idx < Len(vertex_buffers)) THEN <<>>
  ELSE LET vertex_buffer == vertex_buffers[buffer_idx + 1]
       IN  BufferLoop_LaterFirst(vao, vertex_buffers, buffer_idx + 1)
             \o <<Call("glVertexArrayVertexBuffer",
                       [vao |-> vao, binding |-> buffer_idx,
                        buffer |-> vertex_buffer.buffer,
                        offset |-> vertex_buffer.offset,
                        stride |-> vertex_buffer.format.stride])>>
             \o AttribLoop(vao, buffer_idx, vertex_buffer.format.attribs, 1)

\* for (int buffer_idx{0}; buffer_idx < vertex_buffers.size(); ++buffer_idx):
\* bind the buffer to its binding index, then configure its attributes.
RECURSIVE BufferLoop(_, _, _)
BufferLoop(vao, vertex_buffers, buffer_idx) ==
  IF ~(buffer_idx < Len(vertex_buffers)) THEN <<>>
  ELSE LET vertex_buffer == vertex_buffers[buffer_idx + 1]
       IN  <<Call("glVertexArrayVertexBuffer",
                  [vao |-> vao, binding |-> buffer_idx,
                   buffer |-> vertex_buffer.buffer,
                   offset |-> vertex_buffer.offset,
                   stride |-> vertex_buffer.format.stride])>>
             \o AttribLoop(vao, buffer_idx, vertex_buffer.format.attribs, 1)
             \o BufferLoop(vao, vertex_buffers, buffer_idx + 1)

\* The vertex array setup of load_mesh: the driver calls it makes for a
\* vertex array, a sequence of vertex buffers and an optional index buffer.
SetupVAO(vao, vertex_buffers, index_buffer) ==
  BufferLoop(vao, vertex_buffers, 0)
    \o (IF index_buffer.present
          THEN <<Call("glVertexArrayElementBuffer",
                      [vao |-> vao, buffer |-> index_buffer.buffer])>>
          ELSE <<>>)

\* vertex_data: nine floats (written here in tenths); index_data: three
\* 8-bit indices.
vertex_data == <<5, -5, 0, 0, 5, 0, -5, -5, 0>>
index_data == <<2, 1, 0>>

\* The Mesh load_mesh returns: one vertex buffer (the first buffer created)
\* with the position format, an 8-bit index buffer (the second buffer), the
\* vertex array, and the sizes of vertex_data and index_data as the counts.
LoadedMesh(program) ==
  [program |-> program, vao |-> 1,
   vertex_buffers |-> <<VertexBuffer(1, 0, PositionFormat)>>,
   vertex_count |-> Len(vertex_data),
   primitive |-> "triangles",
   index_buffer |-> IndexBuffer(2, "u8"),
   index_count |-> Len(index_data)]

\* The vertex array setup and the Mesh initialisation of load_mesh, applied
\* to the vertex buffers, index buffer and counts of m.
BuildMesh(m, op) ==
  /\ mesh = NoMesh
  /\ mesh' = m
  /\ calls' = SetupVAO(m.vao, m.vertex_buffers, m.index_buffer)
  /\ vaoState' = ApplyVAOCalls(EmptyVAO, calls')
  /\ last' = [NoLast EXCEPT !.op = op]
  /\ UNCHANGED <<input, frame, context>>

\* The setup applied to the Mesh value handed in.
Assemble == BuildMesh(input, "assemble") /\ UNCHANGED store

\* load_mesh(name, material): vertex_data is uploaded to the first buffer and
\* index_data to the second, then the setup is applied to them.
load_mesh ==
  /\ BuildMesh(LoadedMesh(input.program), "load_mesh")
  /\ store' =
       LET m == LoadedMesh(input.program)
           vertex_span == Span(vertex_data, "float")
           index_span == Span(index_data, "uint8_t")
           st == glNamedBufferData(store, m.vertex_buffers[1].buffer,
                                   RangeSize(vertex_span), Memory(vertex_span))
       IN  glNamedBufferData(st, m.index_buffer.buffer,
                             RangeSize(index_span), Memory(index_span))

DrawCalls_CountVertices(m) ==
  <<Call("glUseProgram", m.program), Call("glBindVertexArray", m.vao)>>
    \o (IF m.index_buffer.present
          THEN <<Call("glMultiDrawElementsIndirect",
                      [mode |-> PrimitiveGL(m.primitive),
                       type |-> IndexTypeGL(m.index_buffer.type),
                       commands |-> <<[count |-> m.vertex_count,
                                       instanceCount |-> 1, firstIndex |-> 0,
                                       baseVertex |-> 0, baseInstance |-> 0]>>,
                       drawcount |-> 1, stride |-> 0])>>
          ELSE <<Call("glDrawArrays",
                      [mode |-> PrimitiveGL(m.primitive), first |-> 0,
                       count |-> m.vertex_count])>>)

\* The driver calls of draw_mesh(m), in order.
DrawCalls(m) ==
  <<Call("glUseProgram", m.program), Call("glBindVertexArray", m.vao)>>
    \o (IF m.index_buffer.present
          THEN LET commands == <<[count |-> m.index_count,
                                  instanceCount |-> 1, firstIndex |-> 0,
                                  baseVertex |-> 0, baseInstance |-> 0]>>
               IN  <<Call("glMultiDrawElementsIndirect",
                          [mode |-> PrimitiveGL(m.primitive),
                           type |-> IndexTypeGL(m.index_buffer.type),
                           commands |-> commands,
                           drawcount |-> Len(commands), stride |-> 0])>>
          ELSE <<Call("glDrawArrays",
                      [mode |-> PrimitiveGL(m.primitive), first |-> 0,
                       count |-> m.index_count])>>)

\* draw_mesh(mesh) on the mesh that was built.
draw_mesh ==
  /\ mesh # NoMesh
  /\ frame < MaxFrames
  /\ frame' = frame + 1
  /\ calls' = DrawCalls(mesh)
  /\ last' = [NoLast EXCEPT !.op = "draw_mesh"]
  /\ UNCHANGED <<input, mesh, vaoState, store, context>>

InitMesh ==
  /\ life = [w \in Wrappers |-> "unborn"]
  /\ kind = [w \in Wrappers |-> "Buffer"]
  /\ handle = [w \in Wrappers |-> 0]
  /\ movedFrom = [w \in Wrappers |-> FALSE]
  /\ issued = [k \in Kinds |-> 0]
  /\ released = [k \in Kinds |-> [i \in Ids |-> 0]]
  /\ calls = <<>>
  /\ last = NoLast
  /\ report = NoReport
  /\ thrown = NoThrow
  /\ pc = "idle"
  /\ files = [p \in {FragPath, VertPath} |-> TRUE]
  /\ trace = <<>>
  /\ result = NoResult
  /\ input \in MeshInputs
  /\ mesh = NoMesh
  /\ vaoState = EmptyVAO
  /\ frame = 0
  /\ store = NoStore
  /\ context = "current"

NextMesh ==
  \/ Assemble /\ UNCHANGED <<hvars, report, thrown, lvars>>
  \/ load_mesh /\ UNCHANGED <<hvars, report, thrown, lvars>>
  \/ draw_mesh /\ UNCHANGED <<hvars, report, thrown, lvars>>

SpecMesh == InitMesh /\ [][NextMesh]_vars

InitLoad ==
  /\ life = [o \in LoadObjs |-> "unborn"]
  /\ kind = LoadKind
  /\ handle = [o \in LoadObjs |-> 0]
  /\ movedFrom = [o \in LoadObjs |-> FALSE]
  /\ issued = [k \in Kinds |-> 0]
  /\ released = [k \in Kinds |-> [i \in Ids |-> 0]]
  /\ calls = <<>>
  /\ last = NoLast
  /\ report = NoReport
  /\ thrown = NoThrow
  /\ pc = "frag_ctor"
  /\ files \in [{FragPath, VertPath} -> BOOLEAN]
  /\ trace = <<>>
  /\ result = NoResult
  /\ input = NoInput
  /\ mesh = NoMesh
  /\ vaoState = EmptyVAO
  /\ frame = 0
  /\ store = NoStore
  /\ context = "current"

SpecLoad == InitLoad /\ [][load_shader]_vars

\* ------------------------------------------------------------ buffer use
\* Two buffer wrappers, named after the program's: load_mesh's buffer and
\* main's ubo.
BufferObjs == {"buffer", "ubo"}

\* The ranges handed to upload_data: no record, one record, several records,
\* of one-byte and of four-byte elements.
Spans ==
  { Span(<<>>, "float"), Span(<<7>>, "float"), Span(<<5, -5>>, "float"),
    Span(index_data, "uint8_t") }

\* glDeleteBuffers(1, &name): the data store of a deleted buffer is gone.
DropStore(st, name) ==
  IF name \in DOMAIN st THEN [st EXCEPT ![name] = <<>>] ELSE st

InitBuffer ==
  /\ life = [o \in BufferObjs |-> "unborn"]
  /\ kind = [o \in BufferObjs |-> "Buffer"]
  /\ handle = [o \in BufferObjs |-> 0]
  /\ movedFrom = [o \in BufferObjs |-> FALSE]
  /\ issued = [k \in Kinds |-> 0]
  /\ released = [k \in Kinds |-> [i \in Ids |-> 0]]
  /\ calls = <<>>
  /\ last = NoLast
  /\ report = NoReport
  /\ thrown = NoThrow
  /\ pc = "idle"
  /\ files = [p \in {FragPath, VertPath} |-> TRUE]
  /\ trace = <<>>
  /\ result = NoResult
  /\ input = Span(<<>>, "float")
  /\ mesh = NoMesh
  /\ vaoState = EmptyVAO
  /\ frame = 0
  /\ store = EmptyStore(Ids)
  /\ context = "current"

ConstructBuffer ==
  \E w \in BufferObjs :
    /\ Ctor(w, TRUE)
    /\ UNCHANGED <<report, thrown, lvars, mvars>>

Upload ==
  \E w \in BufferObjs, data \in Spans :
    /\ UploadData(w, data)
    /\ input' = data
    /\ UNCHANGED <<report, thrown, lvars, mesh, vaoState, frame, context>>

AssignBuffer ==
  \E w \in BufferObjs, src \in BufferObjs :
    /\ MoveAssign(w, src)
    /\ store' = DropStore(store, handle[w])
    /\ UNCHANGED <<report, thrown, lvars, input, mesh, vaoState, frame,
                   context>>

DestroyBuffer ==
  \E w \in BufferObjs :
    /\ Dtor(w)
    /\ store' = DropStore(store, handle[w])
    /\ UNCHANGED <<report, thrown, lvars, input, mesh, vaoState, frame,
                   context>>

NextBuffer ==
  \/ ConstructBuffer
  \/ Upload
  \/ AssignBuffer
  \/ DestroyBuffer

SpecBuffer == InitBuffer /\ [][NextBuffer]_vars

\* -------------------------------------------------------------------- main
\* The wrappers alive in main: those of load_shader, the members of the Mesh
\* load_mesh returns, and ubo.
MeshObjs == {"mesh.vao", "mesh.vertex_buffers[0]", "mesh.index_buffer"}
MainObjs == LoadObjs \cup MeshObjs \cup {"ubo"}
MainKind ==
  [o \in MainObjs |->
     IF o \in LoadObjs THEN LoadKind[o]
     ELSE IF o = "mesh.vao" THEN "VAO" ELSE "Buffer"]

\* The names the driver hands out in one run of main: no kind needs more
\* than the buffers do.
MainIds == 1..Cardinality({o \in MainObjs : MainKind[o] = "Buffer"})

\* The locals of main that own wrappers, in the order they are destroyed at
\* the end of main: ubo, then mesh (its members in reverse order of
\* declaration: index_buffer, vertex_buffers, vao), then shader.
MainLocals ==
  <<"ubo", "mesh.index_buffer", "mesh.vertex_buffers[0]", "mesh.vao",
    "shader.program">>

\* The matrices camera.to_matrix() yields in different frames.
Matrices == {1, 2}

\* A statement of main that makes no driver call through a wrapper.
MainStep(from, to) ==
  /\ pc = from
  /\ pc' = to
  /\ calls' = <<>>
  /\ last' = [NoLast EXCEPT !.op = from]
  /\ UNCHANGED <<hvars, report, thrown, files, trace, result>>

\* GLFWContext context{}; auto window{glfwCreateWindow(...)}: the run in
\* which the window and its context are created.
CreateWindow ==
  /\ MainStep("create_window", "make_current")
  /\ UNCHANGED mvars

\* glfwMakeContextCurrent(window); gladLoadGL(...); glViewport(...); then
\* load_shader("main") is entered.
MakeContextCurrent ==
  /\ MainStep("make_current", "frag_ctor")
  /\ context' = "current"
  /\ UNCHANGED <<input, mesh, vaoState, frame, store>>

\* An exception leaves load_shader and nothing in main handles it:
\* std::terminate, reached either without unwinding the stack (from the
\* throw) or after load_shader's locals were destroyed.
Terminate ==
  /\ thrown # NoThrow
  /\ \/ pc = "failed"
     \/ pc = "unwind" /\ \A i \in DOMAIN Locals : life[Locals[i]] # "dead"
  /\ pc' = "terminated"
  /\ calls' = <<>>
  /\ last' = [NoLast EXCEPT !.op = "terminate"]
  /\ UNCHANGED <<hvars, report, thrown, files, trace, result, mvars>>

\* Material material{shader}: the material refers to the shader's program.
MakeMaterial ==
  /\ MainStep("returned", "load_mesh")
  /\ input' = [NoInput EXCEPT !.program = handle["shader.program"]]
  /\ UNCHANGED <<mesh, vaoState, frame, store, context>>

\* auto mesh{load_mesh("triangle", material)}: load_mesh creates two buffers
\* and a vertex array, uploads, sets the vertex array up and moves the three
\* wrappers into the Mesh it returns; its moved-from locals are destroyed
\* with the name 0.
MainLoadMesh ==
  /\ pc = "load_mesh"
  /\ pc' = "ubo_ctor"
  /\ load_mesh
  /\ life' = [o \in MainObjs |-> IF o \in MeshObjs THEN "live" ELSE life[o]]
  /\ handle' = [handle EXCEPT
                  !["mesh.vertex_buffers[0]"] = mesh'.vertex_buffers[1].buffer,
                  !["mesh.index_buffer"] = mesh'.index_buffer.buffer,
                  !["mesh.vao"] = mesh'.vao]
  /\ issued' = [issued EXCEPT !["Buffer"] = @ + 2, !["VAO"] = @ + 1]
  /\ UNCHANGED <<kind, movedFrom, released, report, thrown, files, trace,
                 result>>

\* gl::Buffer ubo.
ConstructUbo ==
  /\ pc = "ubo_ctor"
  /\ pc' = "loop"
  /\ Ctor("ubo", TRUE)
  /\ UNCHANGED <<report, thrown, files, trace, result, mvars>>

\* while (!glfwWindowShouldClose(window)): the window is closed at some
\* frame, at the latest after MaxFrames frames.
ShouldClose ==
  \E close \in BOOLEAN :
    /\ frame = MaxFrames => close
    /\ MainStep("loop", IF close THEN "destroy_window" ELSE "frame_upload")
    /\ UNCHANGED mvars

\* auto mat{camera.to_matrix()}; ubo.upload_data(&mat, sizeof(mat), ...).
FrameUpload ==
  \E mat \in Matrices :
    /\ pc = "frame_upload"
    /\ pc' = "frame_draw"
    /\ UploadDataPtr("ubo", Memory(Span(<<mat>>, "glm::mat4")),
                     SizeOf("glm::mat4"))
    /\ UNCHANGED <<report, thrown, files, trace, result, input, mesh,
                   vaoState, frame, context>>

\* glBindBufferBase(GL_UNIFORM_BUFFER, 0, ubo); draw_mesh(mesh); then the
\* events are polled and the buffers swapped.
FrameDraw ==
  /\ pc = "frame_draw"
  /\ pc' = "loop"
  /\ draw_mesh
  /\ UNCHANGED <<hvars, report, thrown, files, trace, result>>

\* glfwDestroyWindow(window): the window's context is detached and destroyed.
DestroyWindow ==
  /\ MainStep("destroy_window", "main_unwind")
  /\ context' = "destroyed"
  /\ UNCHANGED <<input, mesh, vaoState, frame, store>>

\* The closing brace of main: ubo, mesh and shader are destroyed, in this
\* order.  What a release call does to a data store when no context is
\* current is undefined: the store is dropped or not.
MainUnwind ==
  \E i \in DOMAIN MainLocals :
    /\ pc = "main_unwind"
    /\ life[MainLocals[i]] = "live"
    /\ \A j \in DOMAIN MainLocals : j < i => life[MainLocals[j]] # "live"
    /\ Dtor(MainLocals[i])
    /\ pc' = IF i < Len(MainLocals) THEN "main_unwind" ELSE "glfw_terminate"
    /\ store' \in IF kind[MainLocals[i]] = "Buffer"
                    THEN {store, DropStore(store, handle[MainLocals[i]])}
                    ELSE {store}
    /\ UNCHANGED <<report, thrown, files, trace, result, input, mesh,
                   vaoState, frame, context>>

\* GLFWContext::~GLFWContext(): glfwTerminate().
TerminateGlfw ==
  /\ MainStep("glfw_terminate", "exit")
  /\ UNCHANGED mvars

InitMain ==
  /\ life = [o \in MainObjs |-> "unborn"]
  /\ kind = MainKind
  /\ handle = [o \in MainObjs |-> 0]
  /\ movedFrom = [o \in MainObjs |-> FALSE]
  /\ issued = [k \in Kinds |-> 0]
  /\ released = [k \in Kinds |-> [i \in MainIds |-> 0]]
  /\ calls = <<>>
  /\ last = NoLast
  /\ report = NoReport
  /\ thrown = NoThrow
  /\ pc = "create_window"
  /\ files \in [{FragPath, VertPath} -> BOOLEAN]
  /\ trace = <<>>
  /\ result = NoResult
  /\ input = NoInput
  /\ mesh = NoMesh
  /\ vaoState = EmptyVAO
  /\ frame = 0
  /\ store = EmptyStore(MainIds)
  /\ context = "none"

main ==
  \/ CreateWindow
  \/ MakeContextCurrent
  \/ load_shader
  \/ Terminate
  \/ MakeMaterial
  \/ MainLoadMesh
  \/ ConstructUbo
  \/ ShouldClose
  \/ FrameUpload
  \/ FrameDraw
  \/ DestroyWindow
  \/ MainUnwind
  \/ TerminateGlfw

SpecMain == InitMain /\ [][main]_vars

\* --------------------------------------------------------- specification
Init ==
  /\ life = [w \in Wrappers |-> "unborn"]
  /\ kind \in {[w \in Wrappers |-> k] : k \in Kinds}
  /\ handle = [w \in Wrappers |-> 0]
  /\ movedFrom = [w \in Wrappers |-> FALSE]
  /\ issued = [k \in Kinds |-> 0]
  /\ released = [k \in Kinds |-> [i \in Ids |-> 0]]
  /\ calls = <<>>
  /\ last = NoLast
  /\ report = NoReport
  /\ thrown = NoThrow
  /\ pc = "idle"
  /\ files = [p \in {FragPath, VertPath} |-> TRUE]
  /\ trace = <<>>
  /\ result = NoResult
  /\ input = NoInput
  /\ mesh = NoMesh
  /\ vaoState = EmptyVAO
  /\ frame = 0
  /\ store = NoStore
  /\ context = "current"

Construct ==
  \E w \in Wrappers, ok \in BOOLEAN :
    /\ Ctor(w, ok)
    /\ report' = NoReport /\ thrown' = NoThrow /\ UNCHANGED <<lvars, mvars>>

MoveConstruct ==
  \E w \in Wrappers, src \in Wrappers :
    /\ MoveCtor(w, src)
    /\ report' = NoReport /\ thrown' = NoThrow /\ UNCHANGED <<lvars, mvars>>

MoveAssignment ==
  \E w \in Wrappers, src \in Wrappers :
    /\ MoveAssign(w, src)
    /\ report' = NoReport /\ thrown' = NoThrow /\ UNCHANGED <<lvars, mvars>>

Destroy ==
  \E w \in Wrappers :
    /\ Dtor(w)
    /\ report' = NoReport /\ thrown' = NoThrow /\ UNCHANGED <<lvars, mvars>>

SetSource ==
  \E w \in Wrappers :
    /\ AddSource(w)
    /\ report' = NoReport /\ thrown' = NoThrow /\ UNCHANGED <<lvars, mvars>>

Attach ==
  \E w \in Wrappers, sh \in Wrappers :
    /\ AttachShader(w, sh)
    /\ report' = NoReport /\ thrown' = NoThrow /\ UNCHANGED <<lvars, mvars>>

CompileShader ==
  \E w \in Wrappers, status \in Statuses, log \in Logs :
    Compile(w, status, log) /\ UNCHANGED <<lvars, mvars>>

LinkProgram ==
  \E w \in Wrappers, status \in Statuses, log \in Logs :
    Link(w, status, log) /\ UNCHANGED <<lvars, mvars>>

Next ==
  \/ Construct
  \/ MoveConstruct
  \/ MoveAssignment
  \/ Destroy
  \/ SetSource
  \/ Attach
  \/ CompileShader
  \/ LinkProgram

Spec == Init /\ [][Next]_vars

\* ------------------------------------------------------------------ claims
IssuedIds(k) == 1..issued[k]

\* The live wrappers of kind k that hold the name id.
Holders(k, id) ==
  {w \in Wrappers : life[w] = "live" /\ kind[w] = k /\ handle[w] = id}

IsReleaseCall(c) == c.fn \in DeleteFns

\* The number of release calls among the driver calls cs.
ReleaseCallCount(cs) == Len(SelectSeq(cs, IsReleaseCall))

CallCount(cs, fn) == Cardinality({i \in DOMAIN cs : cs[i].fn = fn})

\* C1: over every sequence of construct, move-construct, move-assign and
\* destroy operations, no non-zero name the driver issued is ever handed to
\* the release call twice, every release call is the one matching the
\* wrapper's kind, and once every wrapper is destroyed each issued name has
\* been handed to the release call exactly once.
C1_ReleasedExactlyOnce ==
  /\ \A k \in Kinds : \A id \in IssuedIds(k) : released[k][id] <= 1
  /\ \A i \in DOMAIN calls :
       IsReleaseCall(calls[i]) => calls[i].fn = DeleteFn(kind[last.w])
  /\ (\A w \in Wrappers : life[w] # "live") =>
       \A k \in Kinds : \A id \in IssuedIds(k) : released[k][id] = 1

\* Every wrapper is destroyed, two names were issued and moved around, and
\* the last wrapper destroyed was a moved-from one.
C1_Witness ==
  /\ \A w \in Wrappers : life[w] = "dead"
  /\ \E k \in Kinds : issued[k] = 2 /\ released[k][1] = 1 /\ released[k][2] = 1
  /\ last.op = "dtor"
  /\ last.wasMoved

\* C2 (as amended): destroying a moved-from wrapper releases nothing: no
\* name's release count changes.  The destructor still makes its one release
\* call, with the name 0, which the driver ignores.
C2_MovedFromDtorReleasesNothing ==
  [][(last'.op = "dtor" /\ last'.wasMoved) =>
       /\ released' = released
       /\ calls' = <<Call(DeleteFn(kind[last'.w]), 0)>>]_vars

\* A moved-from wrapper was just destroyed while the name it gave away is
\* still held by a live wrapper.
C2_Witness ==
  /\ last.op = "dtor"
  /\ last.wasMoved
  /\ \E w \in Wrappers : life[w] = "live" /\ handle[w] # 0

\* C2 (as stated): destroying a moved-from wrapper makes no release call, so a
\* counter of release calls does not change.
C2_NoReleaseCallOnMovedFrom ==
  (last.op = "dtor" /\ last.wasMoved) => ReleaseCallCount(calls) = 0

\* C3: at most one live wrapper holds any given non-zero name, and no live
\* wrapper holds a name that was already handed to the release call.
C3_SingleOwner ==
  \A k \in Kinds : \A id \in Ids :
    /\ Cardinality(Holders(k, id)) <= 1
    /\ Holders(k, id) # {} => released[k][id] = 0

\* One name was released, the other is held by a live wrapper and a live
\* moved-from wrapper exists next to it.
C3_Witness ==
  \E k \in Kinds :
    /\ released[k][1] = 1
    /\ Holders(k, 2) # {}
    /\ \E w \in Wrappers : life[w] = "live" /\ movedFrom[w] /\ kind[w] = k

\* C4: a move-construction or move-assignment from a source into a different
\* destination leaves the destination with the name the source held, the
\* source with 0 and every other wrapper as it was; a move-assignment hands the
\* name the destination held before (if not 0) to the release call once, so
\* that it has been released exactly once; nothing else is released.
C4_MoveTransfers ==
  [][(last'.op \in {"movector", "moveassign"} /\ last'.w # last'.src) =>
       LET w == last'.w
           s == last'.src
           k == kind[w]
       IN  /\ handle'[w] = handle[s]
           /\ handle'[s] = 0
           /\ \A x \in Wrappers \ {w, s} : handle'[x] = handle[x]
           /\ last'.op = "movector" => calls' = <<>> /\ released' = released
           /\ last'.op = "moveassign" =>
                /\ calls' = <<Call(DeleteFn(k), handle[w])>>
                /\ handle[w] # 0 => released'[k][handle[w]] = 1
                /\ \A kk \in Kinds : \A id \in Ids :
                     (kk # k \/ id # handle[w]) =>
                       released'[kk][id] = released[kk][id]]_vars

\* A move-assignment between two different wrappers that both held a name.
C4_Witness ==
  /\ last.op = "moveassign"
  /\ last.w # last.src
  /\ last.old # 0
  /\ last.srcOld # 0
  /\ last.old # last.srcOld
  /\ handle[last.w] = last.srcOld

\* C5: compile raises a CompilationError exactly when the driver reports a
\* compile status other than GL_TRUE; the error's message is the fixed prefix
\* followed by the whole driver log; on success nothing is raised.  Either way
\* the wrapper still holds its name and compile makes no release call.
C5_CompileReportsFailure ==
  last.op = "compile" =>
    /\ (thrown.type = "CompilationError") <=> (report.status # GL_TRUE)
    /\ report.status # GL_TRUE => thrown.what = CompilePrefix \o report.log
    /\ report.status = GL_TRUE => thrown = NoThrow
    /\ life[last.w] = "live"
    /\ handle[last.w] = last.old
    /\ ReleaseCallCount(calls) = 0
    /\ \A id \in IssuedIds("Shader") :
         Holders("Shader", id) # {} => released["Shader"][id] = 0

\* A compile failed and the driver had written a log.
C5_Witness ==
  /\ last.op = "compile"
  /\ thrown.type = "CompilationError"
  /\ Len(report.log) >= 1
  /\ thrown.what = CompilePrefix \o report.log

\* C6: link raises a LinkError carrying the driver's link log exactly when the
\* driver reports a link status other than GL_TRUE, makes exactly one
\* glLinkProgram call per invocation, and never returns normally from a
\* failed link.
C6_LinkReportsFailure ==
  last.op = "link" =>
    /\ (thrown.type = "LinkError") <=> (report.status # GL_TRUE)
    /\ report.status # GL_TRUE => thrown.what = LinkPrefix \o report.log
    /\ report.status = GL_TRUE => thrown = NoThrow
    /\ CallCount(calls, "glLinkProgram") = 1
    /\ calls[1] = Call("glLinkProgram", handle[last.w])

\* A link failed with a non-empty driver log.
C6_Witness ==
  /\ last.op = "link"
  /\ thrown.type = "LinkError"
  /\ Len(report.log) >= 1

Done == pc \in {"returned", "failed"}

TraceHas(fn) == \E i \in DOMAIN trace : trace[i].fn = fn

\* C7 (as amended): load_shader returns no Shader whenever main.frag or
\* main.vert is absent, and it always ends.  With main.frag absent it fails
\* with read_file's file-not-found error, and no compile call, program
\* creation or link call is ever made.  With only main.vert absent it fails
\* with the file-not-found error if the fragment stage compiled, and with the
\* fragment stage's CompilationError if it did not; no program is created or
\* linked.
C7_MissingFileFails ==
  /\ ~Done => ENABLED load_shader
  /\ ~files[FragPath] =>
       /\ ~TraceHas("glCompileShader")
       /\ ~TraceHas("glCreateProgram")
       /\ ~TraceHas("glLinkProgram")
       /\ Done => thrown = FileNotFound(FragPath)
  /\ (~files[FragPath] \/ ~files[VertPath]) =>
       /\ result = NoResult
       /\ pc # "returned"
       /\ life["shader.program"] = "unborn"
  /\ (files[FragPath] /\ ~files[VertPath]) =>
       /\ ~TraceHas("glCreateProgram")
       /\ ~TraceHas("glLinkProgram")
       /\ Done => IF report.status = GL_TRUE
                    THEN thrown = FileNotFound(VertPath)
                    ELSE thrown.type = "CompilationError"

\* load_shader has failed on a missing main.frag and has unwound.
C7_Witness ==
  /\ pc = "failed"
  /\ ~files[FragPath]
  /\ thrown = FileNotFound(FragPath)
  /\ life["frag_shader"] = "dead"

\* C7 (as stated): whenever main.frag or main.vert is absent, load_shader
\* fails with a file-not-found condition.
C7_FileNotFoundWheneverAbsent ==
  (Done /\ (~files[FragPath] \/ ~files[VertPath])) =>
    /\ pc = "failed"
    /\ thrown \in {FileNotFound(FragPath), FileNotFound(VertPath)}

Built == last.op \in {"assemble", "load_mesh"}

HasCall(c) == \E i \in DOMAIN calls : calls[i] = c

\* The input slots the vertex array has enabled.
EnabledSlots == {l \in Locations : vaoState.attribs[l].enabled}

\* The input slots the formats of the vertex buffers vbs declare.
DeclaredSlots(vbs) ==
  UNION { {vbs[i].format.attribs[j].props.location :
             j \in DOMAIN vbs[i].format.attribs} : i \in DOMAIN vbs }

\* The number of attributes the formats of vbs declare, over all buffers.
AttribTotal(vbs) ==
  Cardinality(UNION { {<<i, j>> : j \in DOMAIN vbs[i].format.attribs} :
                      i \in DOMAIN vbs })

\* C8: the vertex array setup binds the buffer at position i (from 0) to
\* binding slot i with its offset and stride, one call per buffer; for every
\* attribute of that buffer it enables the declared input slot, associates
\* the slot with binding slot i and declares count, type, normalization flag
\* and offset as the VertexAttrib gives them, one call of each per attribute;
\* the enabled slots are the declared ones, so one buffer with two attributes
\* at two input slots yields two enabled slots bound to binding 0; and the
\* element buffer is set exactly when an index buffer is present.
C8_SetupBindsBuffersAndAttribs ==
  Built =>
    LET vbs == mesh.vertex_buffers
        ib == mesh.index_buffer
    IN  /\ \A i \in DOMAIN vbs :
             /\ HasCall(Call("glVertexArrayVertexBuffer",
                             [vao |-> mesh.vao, binding |-> i - 1,
                              buffer |-> vbs[i].buffer,
                              offset |-> vbs[i].offset,
                              stride |-> vbs[i].format.stride]))
             /\ vaoState.bindings[i - 1] =
                  [buffer |-> vbs[i].buffer, offset |-> vbs[i].offset,
                   stride |-> vbs[i].format.stride]
             /\ \A j \in DOMAIN vbs[i].format.attribs :
                  LET a == vbs[i].format.attribs[j]
                  IN  /\ HasCall(Call("glEnableVertexArrayAttrib",
                                      [vao |-> mesh.vao,
                                       attrib |-> a.props.location]))
                      /\ HasCall(Call("glVertexArrayAttribBinding",
                                      [vao |-> mesh.vao,
                                       attrib |-> a.props.location,
                                       binding |-> i - 1]))
                      /\ HasCall(Call("glVertexArrayAttribFormat",
                                      [vao |-> mesh.vao,
                                       attrib |-> a.props.location,
                                       size |-> a.props.size,
                                       type |-> IF a.props.type = "f32"
                                                  THEN "GL_FLOAT"
                                                  ELSE "GL_DOUBLE",
                                       normalized |-> a.normalized,
                                       offset |-> a.offset]))
        /\ \A b \in Slots : b >= Len(vbs) => vaoState.bindings[b].buffer = 0
        /\ CallCount(calls, "glVertexArrayVertexBuffer") = Len(vbs)
        /\ CallCount(calls, "glEnableVertexArrayAttrib") = AttribTotal(vbs)
        /\ CallCount(calls, "glVertexArrayAttribBinding") = AttribTotal(vbs)
        /\ CallCount(calls, "glVertexArrayAttribFormat") = AttribTotal(vbs)
        /\ EnabledSlots = DeclaredSlots(vbs)
        /\ (Len(vbs) = 1 /\ Len(vbs[1].format.attribs) = 2
              /\ vbs[1].format.attribs[1].props.location
                   # vbs[1].format.attribs[2].props.location) =>
             /\ Cardinality(EnabledSlots) = 2
             /\ \A l \in EnabledSlots : vaoState.attribs[l].binding = 0
        /\ (vaoState.element # 0) <=> ib.present
        /\ ib.present => vaoState.element = ib.buffer
        /\ CallCount(calls, "glVertexArrayElementBuffer")
             = IF ib.present THEN 1 ELSE 0

\* One buffer whose format has attributes at offsets 0 and 12 with stride 24,
\* and an index buffer: two slots are enabled and the element buffer is set.
C8_Witness ==
  /\ last.op = "assemble"
  /\ Len(mesh.vertex_buffers) = 1
  /\ mesh.vertex_buffers[1].format.stride = 24
  /\ Cardinality(EnabledSlots) = 2
  /\ mesh.index_buffer.present
  /\ vaoState.element = mesh.index_buffer.buffer

DrawFns == {"glMultiDrawElementsIndirect", "glDrawArrays"}

\* C9: every draw_mesh first makes the mesh's program current, then binds the
\* mesh's vertex array, then issues exactly one draw call; with an index
\* buffer that call is one indexed multi-draw of one command with count =
\* index_count, instanceCount 1, firstIndex, baseVertex and baseInstance 0,
\* the mesh's index type and stride 0; for the mesh load_mesh builds it is an
\* 8-bit indexed draw with count 3.
C9_DrawIndexed ==
  last.op = "draw_mesh" =>
    /\ Len(calls) = 3
    /\ calls[1] = Call("glUseProgram", mesh.program)
    /\ calls[2] = Call("glBindVertexArray", mesh.vao)
    /\ Cardinality({i \in DOMAIN calls : calls[i].fn \in DrawFns}) = 1
    /\ calls[3].fn \in DrawFns
    /\ mesh.index_buffer.present =>
         calls[3] =
           Call("glMultiDrawElementsIndirect",
                [mode |-> "GL_TRIANGLES",
                 type |-> CASE mesh.index_buffer.type = "u8" ->
                                 "GL_UNSIGNED_BYTE"
                            [] mesh.index_buffer.type = "u16" ->
                                 "GL_UNSIGNED_SHORT"
                            [] mesh.index_buffer.type = "u32" ->
                                 "GL_UNSIGNED_INT",
                 commands |-> <<[count |-> mesh.index_count,
                                 instanceCount |-> 1, firstIndex |-> 0,
                                 baseVertex |-> 0, baseInstance |-> 0]>>,
                 drawcount |-> 1, stride |-> 0])
    /\ mesh = LoadedMesh(input.program) =>
         /\ calls[3].fn = "glMultiDrawElementsIndirect"
         /\ calls[3].arg.type = "GL_UNSIGNED_BYTE"
         /\ calls[3].arg.commands[1].count = 3

\* The mesh built by load_mesh was drawn a second time.
C9_Witness ==
  /\ last.op = "draw_mesh"
  /\ frame = 2
  /\ mesh = LoadedMesh(input.program)
  /\ calls[3].fn = "glMultiDrawElementsIndirect"

\* C10: without an index buffer draw_mesh issues a non-indexed draw of
\* vertex_count vertices starting at vertex 0, and no indexed draw.
C10_DrawArraysVertexCount ==
  (last.op = "draw_mesh" /\ ~mesh.index_buffer.present) =>
    /\ calls[3] = Call("glDrawArrays",
                       [mode |-> "GL_TRIANGLES", first |-> 0,
                        count |-> mesh.vertex_count])
    /\ CallCount(calls, "glMultiDrawElementsIndirect") = 0

\* C11: the Mesh load_mesh returns records counts that match its data:
\* vertex_count is the number of vertex records uploaded, that is the bytes of
\* the vertex buffer divided by the format's stride, which is 3; index_count
\* is the number of indices uploaded, 3; the index type is 8-bit unsigned and
\* the primitive is triangles.
C11_LoadMeshCounts ==
  last.op = "load_mesh" =>
    LET vb == mesh.vertex_buffers[1]
        ib == mesh.index_buffer
    IN  /\ Len(mesh.vertex_buffers) = 1
        /\ mesh.vertex_count = Len(store[vb.buffer]) \div vb.format.stride
        /\ mesh.vertex_count = 3
        /\ ib.present
        /\ mesh.index_count = Len(store[ib.buffer]) \div SizeOf("uint8_t")
        /\ mesh.index_count = 3
        /\ ib.type = "u8"
        /\ mesh.primitive = "triangles"

\* C12: upload_data is a full replace: after upload_data(data, usage) on a
\* wrapper that holds a buffer, the buffer's data store is byte for byte the
\* memory of the range handed in, its size is the number of records times the
\* size of one record, whatever the buffer held before, and the wrapper holds
\* the same name as before.
C12_UploadFullReplace ==
  (last.op = "upload_data" /\ last.old # 0) =>
    /\ store[last.old] = Memory(input)
    /\ Len(store[last.old]) = Len(input.elems) * SizeOf(input.type)
    /\ \A b \in DOMAIN store[last.old] :
         /\ store[last.old][b].elem
              = input.elems[((b - 1) \div SizeOf(input.type)) + 1]
         /\ store[last.old][b].byte = (b - 1) % SizeOf(input.type)
    /\ life[last.w] = "live"
    /\ handle[last.w] = last.old
    /\ ReleaseCallCount(calls) = 0

\* A buffer that held two four-byte records was uploaded a single record:
\* four bytes are left, none of them of the earlier upload.
C12_Witness ==
  /\ last.op = "upload_data"
  /\ last.old # 0
  /\ Len(last.prev) = 8
  /\ input = Span(<<7>>, "float")
  /\ Len(store[last.old]) = 4
  /\ \A b \in DOMAIN store[last.old] : store[last.old][b].elem = 7

\* C13: in the run of main every driver call made through a wrapper (the
\* creation calls of load_shader and load_mesh, the upload of every frame,
\* the release calls of the destructors at the end of main) is made while
\* the context is current: after it was made current and before the window
\* is destroyed.
C13_ContextCurrentAtWrapperCalls ==
  calls # <<>> => context = "current"

\* The vertex buffer vb declares an attribute at input slot l.
Declares(vb, l) ==
  \E j \in DOMAIN vb.format.attribs : vb.format.attribs[j].props.location = l

\* The position of the last buffer of vbs that declares input slot l, and the
\* last attribute that buffer declares at l.
LastBufferAt(vbs, l) ==
  CHOOSE i \in DOMAIN vbs :
    /\ Declares(vbs[i], l)
    /\ \A k \in DOMAIN vbs : k > i => ~Declares(vbs[k], l)

LastAttribAt(vb, l) ==
  LET as == vb.format.attribs
  IN  as[CHOOSE j \in DOMAIN as :
           /\ as[j].props.location = l
           /\ \A k \in DOMAIN as : k > j => as[k].props.location # l]

\* C14: when two vertex buffers of the sequence declare an attribute at the
\* same input slot, the setup ends with that slot enabled, associated with the
\* binding index of the later buffer and carrying the later buffer's
\* component count, type, normalization flag and offset; no error is raised
\* and every buffer is still bound to its own binding slot.
C14_LastWriteWins ==
  last.op = "assemble" =>
    LET vbs == mesh.vertex_buffers
    IN  \A l \in Locations :
          (\E i1 \in DOMAIN vbs, i2 \in DOMAIN vbs :
              i1 < i2 /\ Declares(vbs[i1], l) /\ Declares(vbs[i2], l)) =>
            LET i == LastBufferAt(vbs, l)
                a == LastAttribAt(vbs[i], l)
            IN  /\ vaoState.attribs[l] =
                     [enabled |-> TRUE, binding |-> i - 1,
                      size |-> a.props.size,
                      type |-> IF a.props.type = "f32"
                                 THEN "GL_FLOAT" ELSE "GL_DOUBLE",
                      normalized |-> a.normalized, offset |-> a.offset]
                /\ thrown = NoThrow
                /\ \A k \in DOMAIN vbs :
                     vaoState.bindings[k - 1] =
                       [buffer |-> vbs[k].buffer, offset |-> vbs[k].offset,
                        stride |-> vbs[k].format.stride]

\* Two buffers declare input slot 0 differently: a vec3 at offset 0, then a
\* normalized vec2 at offset 4; the slot ends on binding 1 as the vec2.
C14_Witness ==
  /\ last.op = "assemble"
  /\ Len(mesh.vertex_buffers) = 2
  /\ mesh.vertex_buffers[1].format = PositionFormat
  /\ mesh.vertex_buffers[2].format =
       VertexFormat(<<VertexAttrib(0, "f32", 2, 4, TRUE)>>, 16)
  /\ vaoState.attribs[0].binding = 1
  /\ vaoState.attribs[0].size = 2
  /\ vaoState.attribs[0].normalized
  /\ vaoState.bindings[0].buffer = 1
  /\ vaoState.bindings[1].buffer = 2

\* C15: load_shader leaks no driver resource.  No name is ever released
\* twice; when a failure (missing file, CompilationError, LinkError) has
\* reached the caller, every shader and program name created so far has been
\* released exactly once and no wrapper of load_shader is left alive; when
\* load_shader has returned, both stage shaders have been released exactly
\* once, and the program's name has not been released and is held by the
\* returned Shader.
C15_LoadShaderLeaksNothing ==
  /\ \A k \in Kinds : \A id \in IssuedIds(k) : released[k][id] <= 1
  /\ pc = "failed" =>
       /\ thrown.type \in {"runtime_error", "CompilationError", "LinkError"}
       /\ \A k \in Kinds : \A id \in IssuedIds(k) : released[k][id] = 1
       /\ \A o \in LoadObjs : life[o] # "live"
       /\ result = NoResult
  /\ pc = "returned" =>
       /\ thrown = NoThrow
       /\ issued["Shader"] = 2
       /\ \A id \in IssuedIds("Shader") : released["Shader"][id] = 1
       /\ issued["Program"] = 1
       /\ released["Program"][1] = 0
       /\ life["shader.program"] = "live"
       /\ handle["shader.program"] = 1
       /\ \A i \in DOMAIN Locals : life[Locals[i]] = "dead"
       /\ result.returned

\* A link failure has reached the caller: two shaders and the program were
\* created and each was released once.
C15_Witness ==
  /\ pc = "failed"
  /\ thrown.type = "LinkError"
  /\ issued["Shader"] = 2
  /\ issued["Program"] = 1
  /\ released["Shader"][1] = 1
  /\ released["Shader"][2] = 1
  /\ released["Program"][1] = 1

\* C16: move-assigning a wrapper to itself is harmless: after w = std::move(w)
\* on a wrapper that held a non-zero name, the wrapper holds the same name and
\* the name has not been handed to the release call.
C16_SelfMoveAssignHarmless ==
  (last.op = "moveassign" /\ last.w = last.src /\ last.old # 0) =>
    /\ handle[last.w] = last.old
    /\ released[kind[last.w]][last.old] = 0
    /\ ReleaseCallCount(calls) = 0

====
